---------------------------- MODULE Spec2Model ----------------------------
(***************************************************************************)
(* Model of legalage_logic: the QR codec of src/src/api.rs and the         *)
(* zero-knowledge pipeline of src/src/zk.rs (generate_proof, verify_proof, *)
(* hide_buffer).                                                           *)
(*                                                                         *)
(* Bytes are the integers 0..255 and byte vectors are sequences of them.   *)
(* A character of a QR string is a number: 0..57 is the index of a base58  *)
(* alphabet character ('1' is 0), SepChar is ';' and OtherChar stands for  *)
(* any character outside the alphabet (such as '0', 'O', 'I', 'l').        *)
(*                                                                         *)
(* The libraries the code calls are modelled by what they do, scaled down  *)
(* where the real sizes are out of reach of a model checker:               *)
(*   - bs58 is the real base58 algorithm (leading zero bytes map to '1',   *)
(*     the rest is a radix conversion by long division);                   *)
(*   - a compressed curve point is one byte x, valid iff x is a field      *)
(*     element and x^3 + 3 is a square (the BN curve y^2 = x^3 + 3 over a  *)
(*     small prime), and a Groth16 proof is the three points A, B, C;      *)
(*   - the scalar field is the integers modulo a small prime and MiMC7r10  *)
(*     is the ten-round x^7 permutation over it;                           *)
(*   - Groth16 is modelled as an ideal proof system: the verifier accepts  *)
(*     exactly the proof bytes the prover emitted from a satisfying        *)
(*     witness, and only for the public inputs they were emitted for.      *)
(***************************************************************************)
EXTENDS Integers, Sequences, FiniteSets, TLC

VARIABLES
    rq,       \* pipeline: the QrRequest handed to generate_proof
    gen,      \* pipeline: what generate_proof returned
    oracle,   \* pipeline: the proof the Groth16 prover emitted (ideal functionality)
    qr_str,   \* pipeline: ProofQrCode::to_string of the generated QR
    dec,      \* pipeline: ProofQrCode::from_str of qr_str
    ver,      \* pipeline: what verify_proof did
    c_qr,     \* codec: a ProofQrCode value P
    c_str,    \* codec: P.to_string()
    c_dec,    \* codec: ProofQrCode::from_str(P.to_string())
    r_src,    \* codec: the tokens a raw input string was assembled from
    r_in,     \* codec: a raw input string
    r_dec,    \* codec: ProofQrCode::from_str(r_in)
    h_buf,    \* hide: the buffer before masking
    h_pad,    \* hide: the pad
    h_out,    \* hide: the buffer after the hide_buffer calls made so far
    h_n       \* hide: how many times hide_buffer has been applied

vars == <<rq, gen, oracle, qr_str, dec, ver, c_qr, c_str, c_dec,
          r_src, r_in, r_dec, h_buf, h_pad, h_out, h_n>>
pipeVars == <<rq, gen, oracle, qr_str, dec, ver>>
codecVars == <<c_qr, c_str, c_dec, r_src, r_in, r_dec>>
hideVars == <<h_buf, h_pad, h_out, h_n>>

None == [none |-> TRUE]
QrError == [err |-> "QrError"]
Ok(v) == [ok |-> v]
IsOk(r) == DOMAIN r = {"ok"}
IsErr(r) == DOMAIN r = {"err"}
IsNone(r) == DOMAIN r = {"none"}

-----------------------------------------------------------------------------
(* Bounds of the model. *)

\* Days are drawn from 0..DayEdge and MAX_JULIAN_DAY-DayEdge..MAX_JULIAN_DAY.
DayEdge == 1
\* Photo digests (pads) are byte vectors of at most this length.
MaxDigestLen == 1
\* Buffers given to hide_buffer on its own have at most this length.
MaxBufLen == 3
\* Pads given to hide_buffer on its own have at most this length.
MaxPadLen == 2
\* A raw QR string is assembled from at most this many tokens.
MaxTokens == 4
\* The prover's randomness draws the point A among the curve points up to this.
MaxPoint == 1

-----------------------------------------------------------------------------
(* Bytes and integers. *)

MAX_JULIAN_DAY == 9999999
MaxI32 == 2147483647
MinI32 == -MaxI32 - 1
Byte == 0..255

RECURSIVE BitXor(_, _)
BitXor(a, b) ==
    IF a = 0 THEN b
    ELSE IF b = 0 THEN a
    ELSE (((a % 2) + (b % 2)) % 2) + 2 * BitXor(a \div 2, b \div 2)

\* byteorder: WriteBytesExt::write_i32::<BigEndian> (two's complement).
WriteI32BE(v) ==
    << (v \div 16777216) % 256, (v \div 65536) % 256, (v \div 256) % 256, v % 256 >>

\* byteorder: ReadBytesExt::read_i32::<BigEndian> of four bytes.
ReadI32BE(b) ==
    (IF b[1] >= 128 THEN b[1] - 256 ELSE b[1]) * 16777216
        + b[2] * 65536 + b[3] * 256 + b[4]

-----------------------------------------------------------------------------
(* bs58 *)

SepChar == 58
OtherChar == 59

RECURSIVE StripZeros(_)
StripZeros(ds) ==
    IF ds = <<>> THEN <<>>
    ELSE IF Head(ds) = 0 THEN StripZeros(Tail(ds)) ELSE ds

RECURSIVE LeadingZeros(_)
LeadingZeros(ds) ==
    IF ds = <<>> THEN 0
    ELSE IF Head(ds) = 0 THEN 1 + LeadingZeros(Tail(ds)) ELSE 0

\* Long division of the number ds (digits in radix from, most significant first)
\* by to, carrying rem: the quotient's digits and the remainder.
RECURSIVE LongDiv(_, _, _, _)
LongDiv(ds, from, to, rem) ==
    IF ds = <<>> THEN [q |-> <<>>, r |-> rem]
    ELSE LET cur == rem * from + Head(ds)
             rest == LongDiv(Tail(ds), from, to, cur % to)
         IN  [q |-> <<cur \div to>> \o rest.q, r |-> rest.r]

RECURSIVE ToRadix(_, _, _)
ToRadix(ds, from, to) ==
    LET s == StripZeros(ds)
    IN  IF s = <<>> THEN <<>>
        ELSE LET d == LongDiv(s, from, to, 0)
             IN  Append(ToRadix(d.q, from, to), d.r)

Zeros(n) == [i \in 1..n |-> 0]

\* bs58::encode(bytes).into_string()
Bs58Encode(bytes) == Zeros(LeadingZeros(bytes)) \o ToRadix(bytes, 256, 58)

\* bs58::decode(s).into_vec(): an error on a character outside the alphabet.
Bs58Decode(s) ==
    IF \E i \in 1..Len(s) : s[i] \notin 0..57 THEN QrError
    ELSE Ok(Zeros(LeadingZeros(s)) \o ToRadix(s, 58, 256))

\* str::split(";"): the parts between the separators, at least one.
RECURSIVE Split(_)
Split(s) ==
    IF \A i \in 1..Len(s) : s[i] # SepChar THEN <<s>>
    ELSE LET k == CHOOSE i \in 1..Len(s) :
                      s[i] = SepChar /\ \A j \in 1..(i - 1) : s[j] # SepChar
         IN  <<SubSeq(s, 1, k - 1)>> \o Split(SubSeq(s, k + 1, Len(s)))

\* [String]::join(";")
RECURSIVE Join(_)
Join(parts) ==
    IF Len(parts) = 0 THEN <<>>
    ELSE IF Len(parts) = 1 THEN parts[1]
    ELSE parts[1] \o <<SepChar>> \o Join(Tail(parts))

-----------------------------------------------------------------------------
(* bellman_ce::groth16::Proof<Bn256>: write and read. *)

\* The prime of the curve's base field: a coordinate is an element below it.
BaseFieldModulus == 251
\* The serialized proof: the points A, B and C, PointLen bytes each.
PointLen == 1
ProofLen == 3 * PointLen

Squares == {(y * y) % BaseFieldModulus : y \in 0..(BaseFieldModulus - 1)}

\* A compressed point decodes iff x is a field element and x^3 + 3 is a square.
OnCurve(x) ==
    /\ x < BaseFieldModulus
    /\ (((x * x) % BaseFieldModulus) * x + 3) % BaseFieldModulus \in Squares

CurvePoints == {x \in Byte : OnCurve(x)}

\* Proof::read(&mut rdr): reads the three points off the front of the bytes
\* (an error when they run out or a point does not decode); what follows the
\* third point is left unread.
ProofRead(bytes) ==
    IF Len(bytes) < ProofLen THEN QrError
    ELSE IF \E i \in 1..ProofLen : ~OnCurve(bytes[i]) THEN QrError
    ELSE Ok(SubSeq(bytes, 1, ProofLen))

\* proof.write(&mut buf): the canonical bytes of the points. A proof value is
\* held as these bytes.
ProofWrite(proof) == proof

-----------------------------------------------------------------------------
(* api.rs: Relation, Public, ProofQrCode and the QR codec. *)

Relation == {"Younger", "Older"}

\* `relation as u8`: the discriminant of the enum.
RelationAsU8(r) == IF r = "Younger" THEN 0 ELSE 1

\* A variant of public_to_string that writes delta before now: the round-trip
\* theorem must tell it from public_to_string.
public_to_string_swapped(qr) ==
    Bs58Encode(WriteI32BE(qr.public.today) \o WriteI32BE(qr.public.delta)
               \o WriteI32BE(qr.public.now)
               \o <<RelationAsU8(qr.public.relation)>>)

public_to_string(qr) ==
    Bs58Encode(WriteI32BE(qr.public.today) \o WriteI32BE(qr.public.now)
               \o WriteI32BE(qr.public.delta)
               \o <<RelationAsU8(qr.public.relation)>>)

\* Each read_i32 and the read_u8 fail when the bytes run out: 13 are needed.
HeaderFromBytes(b) ==
    IF Len(b) < 13 THEN QrError
    ELSE Ok([today    |-> ReadI32BE(SubSeq(b, 1, 4)),
             now      |-> ReadI32BE(SubSeq(b, 5, 8)),
             delta    |-> ReadI32BE(SubSeq(b, 9, 12)),
             relation |-> IF b[13] = RelationAsU8("Younger")
                          THEN "Younger" ELSE "Older"])

public_from_str(s) ==
    LET d == Bs58Decode(s)
    IN  IF IsErr(d) THEN QrError ELSE HeaderFromBytes(d.ok)

proof_to_string(qr) == Bs58Encode(ProofWrite(qr.proof))

proof_from_str(s) ==
    LET d == Bs58Decode(s)
    IN  IF IsErr(d) THEN QrError ELSE ProofRead(d.ok)

challenge_to_string(qr) == Bs58Encode(qr.challenge)

challenge_from_str(s) == Bs58Decode(s)

to_string(qr) ==
    Join(<<public_to_string(qr), proof_to_string(qr), challenge_to_string(qr)>>)

\* The Ok arm of from_str: the three parts decoded in turn, the first error
\* returned (the ? operator).
FromParts(parts) ==
    LET pu == public_from_str(parts[1])
        pr == proof_from_str(parts[2])
        ch == challenge_from_str(parts[3])
    IN  IF IsErr(pu) THEN QrError
        ELSE IF IsErr(pr) THEN QrError
        ELSE IF IsErr(ch) THEN QrError
        ELSE Ok([public |-> pu.ok, proof |-> pr.ok, challenge |-> ch.ok])

\* A variant of from_str that only asks for at least three parts and reads the
\* first three: the strictness theorem must tell it from from_str.
from_str_lenient(s) ==
    LET parts == Split(s)
    IN  IF Len(parts) < 3 THEN QrError ELSE FromParts(parts)

from_str(s) ==
    LET parts == Split(s)
    IN  IF Len(parts) # 3 THEN QrError ELSE FromParts(parts)

-----------------------------------------------------------------------------
(* zk.rs: the proof mask. *)

\* The loop of hide_buffer from index i on (indices are 1-based here, so the
\* pad byte of buf[i] is hidding[(i - 1) % len], counted from 1).
RECURSIVE HideLoop(_, _, _)
HideLoop(buf, hidding, i) ==
    IF i > Len(buf) THEN buf
    ELSE HideLoop([buf EXCEPT ![i] = BitXor(buf[i], hidding[((i - 1) % Len(hidding)) + 1])],
                  hidding, i + 1)

\* A variant of hide_buffer that leaves the buffer as it is: the theorem on
\* wrong digests must tell it from hide_buffer.
hide_buffer_skipped(buf, hidding) == buf

\* A variant of hide_buffer that masks every byte with the pad's first byte:
\* the repeating-key theorem must tell it from hide_buffer.
hide_buffer_first_byte(buf, hidding) ==
    IF Len(hidding) > 0 THEN HideLoop(buf, <<hidding[1]>>, 1) ELSE buf

hide_buffer(buf, hidding) ==
    IF Len(hidding) > 0 THEN HideLoop(buf, hidding, 1) ELSE buf

hide_bellman_proof(proof, hidding) == hide_buffer(ProofWrite(proof), hidding)

unhide_bellman_proof(hidden, hidding) == ProofRead(hide_buffer(hidden, hidding))

-----------------------------------------------------------------------------
(* zk.rs: the scalar field, MiMC7r10 and the key derivation. *)

\* The prime of the scalar field Fr. Day numbers (at most 3 * MAX_JULIAN_DAY)
\* lie below the real prime, so they are kept as integers; the hash chain is
\* computed modulo this scaled-down prime.
FieldModulus == 32749
\* into_byte_vector gives this many bytes.
FieldBytes == 2

FieldOf(n) == n % FieldModulus
FMul(a, b) == (FieldOf(a) * FieldOf(b)) % FieldModulus
FAdd(a, b) == (FieldOf(a) + FieldOf(b)) % FieldModulus

\* Bn128Field::from_byte_vector: the bytes as a little-endian number.
RECURSIVE from_byte_vector(_)
from_byte_vector(bytes) ==
    IF bytes = <<>> THEN 0
    ELSE FAdd(Head(bytes), FMul(256, from_byte_vector(Tail(bytes))))

\* Bn128Field::into_byte_vector: FieldBytes little-endian bytes.
into_byte_vector(v) == [i \in 1..FieldBytes |-> IF i = 1 THEN v % 256 ELSE (v \div 256) % 256]

\* The round constants of MiMC7 (the first is not used).
RoundConstants == <<0, 20888, 27220, 7289, 5231, 14676, 1227, 30113, 9941, 18446>>
NRounds == 10

\* t^7 as Mimc7::hash computes it: t2 = t^2, t7 = t2^2 * t2 * t.
Pow7(t) ==
    LET t1 == FieldOf(t)
        t2 == (t1 * t1) % FieldModulus
        t4 == (t2 * t2) % FieldModulus
        t6 == (t4 * t2) % FieldModulus
    IN  (t6 * t1) % FieldModulus

\* Mimc7::hash: the rounds from i on, h being the state after round i - 1
\* (round 0 takes x_in + k, round i > 0 takes h + k + cts[i]). The range test
\* on t7 always holds; it makes TLC compute a round before it enters the next.
RECURSIVE MimcRounds(_, _, _)
MimcRounds(h, k, i) ==
    IF i = NRounds THEN h
    ELSE LET t  == IF i = 0 THEN FAdd(h, k) ELSE FAdd(FAdd(h, k), RoundConstants[i + 1])
             t7 == Pow7(t)
         IN  IF t7 \in 0..(FieldModulus - 1) THEN MimcRounds(t7, k, i + 1) ELSE 0

compute_mimc7r10_hash(x, k) == FAdd(MimcRounds(x, k, 0), k)

\* generate_card_key, on the field values (birthday an i32, the others the
\* values of the byte vectors).
CardKey(birthday, private_key, photos_digest) ==
    LET k  == FMul(birthday, private_key)
        m1 == compute_mimc7r10_hash(photos_digest, k)
    IN  FMul(m1, photos_digest)

generate_card_key(private) ==
    into_byte_vector(CardKey(private.birthday,
                             from_byte_vector(private.private_key),
                             from_byte_vector(private.photos_digest)))

compute_challenge(card_key, today) ==
    into_byte_vector(compute_mimc7r10_hash(today, from_byte_vector(card_key)))

-----------------------------------------------------------------------------
(* The embedded circuit (zokrates/out) and the Groth16 proof system. *)

\* The circuit on its five arguments birthday_encoded, delta_encoded,
\* today_encoded, photos_digest, private_key: whether its constraint
\* birthday_encoded + delta_encoded < today_encoded is satisfied, and its one
\* output, the challenge.
Circuit(args) ==
    [sat |-> args[1] + args[2] < args[3],
     out |-> compute_mimc7r10_hash(args[3], CardKey(args[1], args[5], args[4]))]

\* interpreter.execute(&prg, &arguments): the witness. The proving pipeline
\* runs on an unsatisfying witness too.
Execute(args) == Ok(Circuit(args))

\* G16::generate_proof: the proof bytes rnd (the prover's randomness picks
\* them), recorded with the public inputs (delta_encoded, today_encoded and
\* the output) they prove and whether the witness satisfied the circuit.
G16Prove(args, witness, rnd) ==
    [bytes |-> rnd, inputs |-> <<args[2], args[3], witness.out>>, sat |-> witness.sat]

\* G16::verify(vk, proof): accepts exactly the emitted proof, for exactly its
\* public inputs, when it came from a satisfying witness.
G16Verify(orc, proof, inputs) ==
    /\ ~IsNone(orc)
    /\ orc.sat
    /\ proof = orc.bytes
    /\ inputs = orc.inputs

-----------------------------------------------------------------------------
(* api.rs / zk.rs: generate_proof and verify_proof. *)

is_relation_valid(r) ==
    IF r.public.relation = "Younger"
    THEN r.private.birthday + r.public.delta > r.public.today
    ELSE r.private.birthday + r.public.delta < r.public.today

\* a - b on i32, where a result outside the 32 bits wraps around.
I32Sub(a, b) ==
    IF b > 0 /\ a < MinI32 + b THEN ((a - MinI32) - b) + MaxI32 + 1
    ELSE IF b < 0 /\ a > MaxI32 + b THEN (((a - MaxI32) - 1) - b) + MinI32
    ELSE a - b

\* A variant of YoungerFold that folds today over MAX_JULIAN_DAY, as it does
\* birthday and delta: the theorem on the fold must tell it from YoungerFold.
YoungerFold_short(birthday, delta, today) ==
    << I32Sub(MAX_JULIAN_DAY, birthday),
       I32Sub(MAX_JULIAN_DAY, delta),
       I32Sub(MAX_JULIAN_DAY, today) >>

\* "Inverting the relation": the values generate_proof gives birthday, delta
\* and today when the relation is Younger.
YoungerFold(birthday, delta, today) ==
    << I32Sub(MAX_JULIAN_DAY, birthday),
       I32Sub(MAX_JULIAN_DAY, delta),
       I32Sub(2 * MAX_JULIAN_DAY, today) >>

\* A variant of ProverArgs that dates the proof with the header's now in place
\* of today: the theorem on now must tell it from ProverArgs.
ProverArgs_dated(r) ==
    << r.private.birthday, r.public.delta, r.public.now,
       from_byte_vector(r.private.photos_digest),
       from_byte_vector(r.private.private_key) >>

\* The five arguments generate_proof pushes for the circuit.
ProverArgs(r) ==
    LET valid   == is_relation_valid(r)
        younger == r.public.relation = "Younger"
        fold    == YoungerFold(r.private.birthday, r.public.delta, r.public.today)
    IN  << IF valid /\ younger THEN fold[1] ELSE r.private.birthday,
           IF valid THEN (IF younger THEN fold[2] ELSE r.public.delta)
                    ELSE 0,
           IF valid /\ younger THEN fold[3] ELSE r.public.today,
           from_byte_vector(r.private.photos_digest),
           from_byte_vector(r.private.private_key) >>

\* generate_proof(rq), with the proof bytes rnd the prover draws, gives the
\* result (res) and the proof as the proof system emitted it (orc).
ExecutionFailed == [res |-> [err |-> "Execution failed"], orc |-> None]

\* generate_proof from the witness execution on: the error of a failed
\* execution, or the QR with the masked proof and the circuit's output.
ProveAndPack(r, rnd, args) ==
    LET w == Execute(args)
    IN  IF IsErr(w) THEN ExecutionFailed
        ELSE [res |-> Ok([public    |-> r.public,
                          proof     |-> hide_bellman_proof(rnd, r.private.photos_digest),
                          challenge |-> into_byte_vector(w.ok.out)]),
              orc |-> G16Prove(args, w.ok, rnd)]

\* A variant of generate_proof that returns an error for a request whose
\* relation does not hold: the no-error-channel theorem must tell it from
\* generate_proof.
generate_proof_refusing(r, rnd) ==
    IF is_relation_valid(r) THEN ProveAndPack(r, rnd, ProverArgs(r))
    ELSE ExecutionFailed

generate_proof(r, rnd) == ProveAndPack(r, rnd, ProverArgs(r))

\* A variant of VerifierInputs that pushes today before delta: the theorem on
\* the two folds must tell it from VerifierInputs.
VerifierInputs_swapped(qr) ==
    LET younger == qr.public.relation = "Younger"
    IN  << IF younger THEN 2 * MAX_JULIAN_DAY - qr.public.today ELSE qr.public.today,
           IF younger THEN MAX_JULIAN_DAY - qr.public.delta ELSE qr.public.delta,
           from_byte_vector(qr.challenge) >>

\* The public inputs verify_proof builds from the QR alone.
VerifierInputs(qr) ==
    LET younger == qr.public.relation = "Younger"
    IN  << IF younger THEN MAX_JULIAN_DAY - qr.public.delta ELSE qr.public.delta,
           IF younger THEN 2 * MAX_JULIAN_DAY - qr.public.today ELSE qr.public.today,
           from_byte_vector(qr.challenge) >>

Panic == [panic |-> "unwrap"]
IsPanic(r) == DOMAIN r = {"panic"}

\* verify_proof(&qr, &photo_digest): Ok(()), Err("no"), or the panic of the
\* unwrap on unhide_bellman_proof's result.
verify_proof(qr, photo_digest, orc) ==
    LET proof == unhide_bellman_proof(qr.proof, photo_digest)
    IN  IF IsErr(proof) THEN Panic
        ELSE IF G16Verify(orc, proof.ok, VerifierInputs(qr)) THEN Ok("unit")
        ELSE [err |-> "no"]

-----------------------------------------------------------------------------
(* The pipeline: a request is proved, the QR is verified directly, or encoded, *)
(* decoded and verified.                                                       *)

Days == (0..DayEdge) \cup ((MAX_JULIAN_DAY - DayEdge)..MAX_JULIAN_DAY)
Nows == {0, 1200}
DigestBytes == {0, 7}
Digests == UNION {[1..n -> DigestBytes] : n \in 0..MaxDigestLen}
PrivateKeys == {<<>>, <<10>>}

\* The proofs the prover's randomness ranges over: A is any of the first curve
\* points, B and C are held at one curve point each.
ProofSamples == {<<a, 1, 12>> : a \in {x \in CurvePoints : x <= MaxPoint}}

Requests ==
    [public  : [today : Days, now : Nows, relation : Relation, delta : Days],
     private : [birthday : Days, private_key : PrivateKeys, photos_digest : Digests]]

CodecIdle == /\ c_qr = None /\ c_str = None /\ c_dec = None
             /\ r_src = None /\ r_in = None /\ r_dec = None
HideIdle == /\ h_buf = None /\ h_pad = None /\ h_out = None /\ h_n = 0
PipeIdle == /\ rq = None /\ gen = None /\ oracle = None
            /\ qr_str = None /\ dec = None /\ ver = None

Init ==
    /\ rq \in Requests
    /\ gen = None /\ oracle = None /\ qr_str = None /\ dec = None /\ ver = None
    /\ CodecIdle
    /\ HideIdle

GenerateProof ==
    /\ IsNone(gen)
    /\ \E rnd \in ProofSamples :
          LET g == generate_proof(rq, rnd)
          IN  gen' = g.res /\ oracle' = g.orc
    /\ UNCHANGED <<rq, qr_str, dec, ver, codecVars, hideVars>>

QrToString ==
    /\ IsOk(gen) /\ IsNone(qr_str) /\ IsNone(ver)
    /\ qr_str' = [s |-> to_string(gen.ok)]
    /\ UNCHANGED <<rq, gen, oracle, dec, ver, codecVars, hideVars>>

QrFromStr ==
    /\ ~IsNone(qr_str) /\ IsNone(dec)
    /\ dec' = from_str(qr_str.s)
    /\ UNCHANGED <<rq, gen, oracle, qr_str, ver, codecVars, hideVars>>

VerifyDirect ==
    /\ IsOk(gen) /\ IsNone(qr_str) /\ IsNone(ver)
    /\ \E d \in Digests :
          ver' = [src |-> "direct", digest |-> d, res |-> verify_proof(gen.ok, d, oracle)]
    /\ UNCHANGED <<rq, gen, oracle, qr_str, dec, codecVars, hideVars>>

VerifyDecoded ==
    /\ IsOk(dec) /\ IsNone(ver)
    /\ \E d \in Digests :
          ver' = [src |-> "decoded", digest |-> d, res |-> verify_proof(dec.ok, d, oracle)]
    /\ UNCHANGED <<rq, gen, oracle, qr_str, dec, codecVars, hideVars>>

Next == GenerateProof \/ QrToString \/ QrFromStr \/ VerifyDirect \/ VerifyDecoded

Spec == Init /\ [][Next]_vars

-----------------------------------------------------------------------------
(* The codec on its own: a ProofQrCode value is encoded and decoded, and a raw *)
(* string assembled from tokens is decoded.                                    *)

I32Samples == {MinI32, -1, 0, 2020, MaxI32}
CodecChallenges == {<<>>, <<0, 0>>, <<0, 5>>, <<7, 0>>}

CodecQrs ==
    [public    : [today : I32Samples, now : I32Samples, relation : Relation,
                  delta : I32Samples],
     proof     : ProofSamples,
     challenge : CodecChallenges]

\* A token of a raw string: the base58 of some bytes, or (bad) that with a
\* character outside the alphabet after it.
Token(b, bad) == [bytes |-> b, bad |-> bad]
TokenStr(t) ==
    IF t.bad THEN Append(Bs58Encode(t.bytes), OtherChar) ELSE Bs58Encode(t.bytes)

RawHeader13 ==
    {WriteI32BE(t) \o WriteI32BE(1200) \o WriteI32BE(d) \o <<r>> :
        t \in {2020, -1}, d \in {18, MinI32}, r \in {0, 1, 2, 255}}
RawHeaderBytes ==
    RawHeader13 \cup {SubSeq(h, 1, 12) : h \in RawHeader13}
                \cup {h \o <<9>> : h \in RawHeader13} \cup {<<>>}
RawProofBytes == {<<1, 1, 12>>, <<1, 2, 12>>, <<1, 1>>, <<1, 1, 12, 9>>}
RawChallengeBytes == {<<>>, <<0, 5>>}

RawToken0 == {Token(b, bad) : b \in RawHeaderBytes, bad \in BOOLEAN}
RawToken1 == {Token(b, FALSE) : b \in RawProofBytes} \cup {Token(<<1, 1, 12>>, TRUE)}
RawToken2 == {Token(b, FALSE) : b \in RawChallengeBytes} \cup {Token(<<0, 5>>, TRUE)}
RawExtra == {Token(<<>>, FALSE)}

RawSources ==
    {<<t0>> : t0 \in RawToken0}
    \cup {<<t0, t1>> : t0 \in RawToken0, t1 \in RawToken1}
    \cup {<<t0, t1, t2>> \o x :
            t0 \in RawToken0, t1 \in RawToken1, t2 \in RawToken2,
            x \in UNION {[1..k -> RawExtra] : k \in 0..(MaxTokens - 3)}}

Assemble(tokens) == Join([i \in 1..Len(tokens) |-> TokenStr(tokens[i])])

InitCodec ==
    /\ PipeIdle
    /\ HideIdle
    /\ c_str = None /\ c_dec = None /\ r_dec = None
    /\ \/ /\ c_qr \in {[qr |-> q] : q \in CodecQrs}
          /\ r_src = None /\ r_in = None
       \/ /\ c_qr = None
          /\ \E src \in RawSources :
                r_src = [tokens |-> src] /\ r_in = [s |-> Assemble(src)]

CodecToString ==
    /\ ~IsNone(c_qr) /\ IsNone(c_str)
    /\ c_str' = [s |-> to_string(c_qr.qr)]
    /\ UNCHANGED <<c_qr, c_dec, r_src, r_in, r_dec, pipeVars, hideVars>>

CodecFromStr ==
    /\ ~IsNone(c_str) /\ IsNone(c_dec)
    /\ c_dec' = from_str(c_str.s)
    /\ UNCHANGED <<c_qr, c_str, r_src, r_in, r_dec, pipeVars, hideVars>>

ParseRaw ==
    /\ ~IsNone(r_in) /\ IsNone(r_dec)
    /\ r_dec' = from_str(r_in.s)
    /\ UNCHANGED <<c_qr, c_str, c_dec, r_src, r_in, pipeVars, hideVars>>

NextCodec == CodecToString \/ CodecFromStr \/ ParseRaw

SpecCodec == InitCodec /\ [][NextCodec]_vars

-----------------------------------------------------------------------------
(* hide_buffer on its own: a buffer is masked with a pad, and masked again. *)

HideBytes == {0, 7, 255}
HideBuffers == UNION {[1..n -> HideBytes] : n \in 0..MaxBufLen}
HidePads == UNION {[1..n -> DigestBytes \cup {129}] : n \in 0..MaxPadLen}

InitHide ==
    /\ PipeIdle
    /\ CodecIdle
    /\ \E b \in HideBuffers : h_buf = [b |-> b] /\ h_out = [b |-> b]
    /\ \E k \in HidePads : h_pad = [k |-> k]
    /\ h_n = 0

\* One call hide_buffer(&mut buf, &pad) on the buffer as it stands.
Hide ==
    /\ h_n < 2
    /\ h_out' = [b |-> hide_buffer(h_out.b, h_pad.k)]
    /\ h_n' = h_n + 1
    /\ UNCHANGED <<h_buf, h_pad, pipeVars, codecVars>>

NextHide == Hide

SpecHide == InitHide /\ [][NextHide]_vars

-----------------------------------------------------------------------------
(* Properties of the pipeline (checked under Spec). *)

InRange(r) ==
    /\ r.public.today \in 0..MAX_JULIAN_DAY
    /\ r.public.delta \in 0..MAX_JULIAN_DAY
    /\ r.private.birthday \in 0..MAX_JULIAN_DAY

Verified == ~IsNone(ver)
OwnDigest == Verified /\ ver.digest = rq.private.photos_digest

\* C1: for every in-range request for which is_relation_valid holds,
\* generate_proof returns a QR, verify_proof of that QR with the request's own
\* photos_digest returns Ok, the QR's string decodes again, and verify_proof of
\* the decoded QR with the same digest returns Ok.
C1_ValidRequestVerifies ==
    (InRange(rq) /\ is_relation_valid(rq)) =>
        /\ ~IsNone(gen) => IsOk(gen)
        /\ ~IsNone(dec) => IsOk(dec)
        /\ OwnDigest => IsOk(ver.res)

\* The part of C1 the code keeps: the QR verifies directly, and it verifies
\* after the round trip whenever the string decodes at all.
ValidRequestVerifiesWhenDecoded ==
    (InRange(rq) /\ is_relation_valid(rq)) =>
        /\ ~IsNone(gen) => IsOk(gen)
        /\ OwnDigest => IsOk(ver.res)

\* The decoder rejects the encoded QR exactly when the masked proof bytes are
\* not the encoding of three curve points.
DecodeFailsOnMaskedProof ==
    ~IsNone(dec) => (IsErr(dec) <=> IsErr(ProofRead(gen.ok.proof)))

\* C2: for every in-range request for which is_relation_valid fails, the QR
\* generate_proof returns is rejected (Err) by verify_proof called with the
\* request's own photos_digest, directly or after a round trip.
C2_InvalidRequestRejected ==
    (InRange(rq) /\ ~is_relation_valid(rq) /\ OwnDigest) => IsErr(ver.res)

\* The requests on which C2 fails: relation Younger with birthday 0 and
\* delta = today = MAX_JULIAN_DAY, and no other.
InvalidAcceptedOnlyAtFoldFixpoint ==
    (InRange(rq) /\ ~is_relation_valid(rq) /\ Verified /\ IsOk(ver.res)) =>
        /\ rq.public.relation = "Younger"
        /\ rq.private.birthday = 0
        /\ rq.public.delta = MAX_JULIAN_DAY
        /\ rq.public.today = MAX_JULIAN_DAY

\* C3: a request with birthday + delta = today, under either relation and for
\* all in-range values, produces a QR, and that QR verifies as Invalid (Err)
\* with the request's photos_digest.
C3_EqualityNeverAccepted ==
    (InRange(rq) /\ rq.private.birthday + rq.public.delta = rq.public.today) =>
        /\ ~IsNone(gen) => IsOk(gen)
        /\ OwnDigest => IsErr(ver.res)

\* A QR is well formed: it carries the request's public header, a challenge of
\* the field's byte length, and proof bytes that unmask, with the request's
\* digest, to a Groth16 proof.
WellFormedQr(qr, r) ==
    /\ qr.public = r.public
    /\ Len(qr.challenge) = FieldBytes
    /\ Len(qr.proof) = ProofLen
    /\ IsOk(unhide_bellman_proof(qr.proof, r.private.photos_digest))

C5_VerifyNeverPanics ==
    Verified => (IsOk(ver.res) \/ IsErr(ver.res))

\* verify_proof panics exactly when the unmasked bytes are not the encoding of
\* a proof.
PanicIsUnparsedProof ==
    Verified =>
        (IsPanic(ver.res) <=>
            IsErr(unhide_bellman_proof(
                     IF ver.src = "direct" THEN gen.ok.proof ELSE dec.ok.proof,
                     ver.digest)))

\* The mask a pad lays over the proof bytes.
MaskOf(pad) ==
    [i \in 1..ProofLen |-> IF Len(pad) = 0 THEN 0 ELSE pad[((i - 1) % Len(pad)) + 1]]

\* C6 as stated: a QR generated with photos_digest d is not accepted by
\* verify_proof called with any digest that differs from d; verification
\* succeeds only when the two byte vectors are identical.
C6_OnlyIdenticalDigestAccepted ==
    (Verified /\ IsOk(ver.res)) => ver.digest = rq.private.photos_digest

\* C6 as amended: verify_proof does not return Ok when it is called with a
\* digest whose repeating-key mask over the proof bytes differs from the mask
\* of the digest the QR was generated with.
C6_OnlyEqualMaskAccepted ==
    (Verified /\ IsOk(ver.res)) => MaskOf(ver.digest) = MaskOf(rq.private.photos_digest)

\* verify_proof was called with a digest of another mask and returned Err.
C6_Witness ==
    /\ Verified
    /\ MaskOf(ver.digest) # MaskOf(rq.private.photos_digest)
    /\ IsErr(ver.res)

\* C10: the challenge of every QR generate_proof returns is
\* compute_challenge(generate_card_key(private), public.today), computed from
\* the request's own today and birthday.
C10_ChallengeOfRequest ==
    IsOk(gen) =>
        gen.ok.challenge = compute_challenge(generate_card_key(rq.private), rq.public.today)

\* C10 holds of every QR but those of valid Younger requests, whose challenge
\* is the hash of the folded today and birthday.
ChallengeOfFoldedRequest ==
    IsOk(gen) =>
        LET folded == is_relation_valid(rq) /\ rq.public.relation = "Younger"
            b == IF folded THEN MAX_JULIAN_DAY - rq.private.birthday
                           ELSE rq.private.birthday
            t == IF folded THEN 2 * MAX_JULIAN_DAY - rq.public.today
                           ELSE rq.public.today
        IN  gen.ok.challenge =
                compute_challenge(
                    generate_card_key([rq.private EXCEPT !.birthday = b]), t)

-----------------------------------------------------------------------------
(* Properties of the codec (checked under SpecCodec). *)

SepCount(s) == Cardinality({i \in 1..Len(s) : s[i] = SepChar})
Token0Bytes == r_src.tokens[1].bytes

\* C9: from_str returns an error whenever the string does not split on ';'
\* into exactly three tokens, whenever a token holds a character outside the
\* base58 alphabet, and whenever token0 decodes to fewer than 13 bytes; when it
\* succeeds, today, now and delta are the signed 32-bit big-endian values of
\* bytes 0..3, 4..7, 8..11 of token0 and relation is Younger iff byte 12 is 0.
C9_StrictDecoding ==
    ~IsNone(r_dec) =>
        /\ SepCount(r_in.s) # 2 => IsErr(r_dec)
        /\ (\E i \in 1..Len(r_in.s) : r_in.s[i] = OtherChar) => IsErr(r_dec)
        /\ Len(Token0Bytes) < 13 => IsErr(r_dec)
        /\ IsOk(r_dec) =>
              /\ WriteI32BE(r_dec.ok.public.today) = SubSeq(Token0Bytes, 1, 4)
              /\ WriteI32BE(r_dec.ok.public.now) = SubSeq(Token0Bytes, 5, 8)
              /\ WriteI32BE(r_dec.ok.public.delta) = SubSeq(Token0Bytes, 9, 12)
              /\ r_dec.ok.public.today \in MinI32..MaxI32
              /\ r_dec.ok.public.delta \in MinI32..MaxI32
              /\ (r_dec.ok.public.relation = "Younger") <=> (Token0Bytes[13] = 0)
              /\ r_dec.ok.public.relation \in Relation

\* A string of three tokens whose token0 has 14 bytes, a negative delta and
\* relation byte 2 has been decoded, to relation Older.
C9_Witness ==
    /\ IsOk(r_dec)
    /\ Len(Token0Bytes) = 14
    /\ Token0Bytes[13] = 2
    /\ r_dec.ok.public.delta < 0
    /\ r_dec.ok.public.relation = "Older"

-----------------------------------------------------------------------------
(* Properties of hide_buffer (checked under SpecHide). *)

\* C8: hide_buffer is a repeating-key XOR and its own inverse: one call keeps
\* the length and gives b'[i] = b[i] XOR k[i mod L] for a pad k of length
\* L > 0 (indices from 0), and b unchanged for the empty pad; two calls with
\* the same pad give b back.
C8_RepeatingKeyXor ==
    LET b == h_buf.b
        k == h_pad.k
        o == h_out.b
    IN  /\ Len(o) = Len(b)
        /\ (h_n = 1 /\ Len(k) > 0) =>
              \A i \in 0..(Len(b) - 1) : o[i + 1] = BitXor(b[i + 1], k[(i % Len(k)) + 1])
        /\ (h_n = 1 /\ Len(k) = 0) => o = b
        /\ h_n = 2 => o = b

\* A buffer longer than its pad, the pad of two different bytes, has been
\* masked (changing it) and unmasked.
C8_Witness ==
    /\ h_n = 2
    /\ Len(h_pad.k) = 2 /\ h_pad.k[1] # h_pad.k[2]
    /\ Len(h_buf.b) > Len(h_pad.k)
    /\ hide_buffer(h_buf.b, h_pad.k) # h_buf.b

-----------------------------------------------------------------------------
(* Properties of the header field now (checked under Spec). *)

\* The values of now a request or a QR is compared under.
NowSamples == Nows \cup {MinI32, -1, MaxI32}

\* The QR verify_proof was called on.
VerifiedQr == IF ver.src = "direct" THEN gen.ok ELSE dec.ok

\* C11: the header field now influences neither proving nor verification: a
\* request that differs from the proved one only in now has the same witness
\* arguments, the same challenge and the same proof statement, and a QR that
\* differs from the verified one only in public.now gets the same verify_proof
\* result for the digest verify_proof was called with.
C11_NowHasNoInfluence ==
    \A n \in NowSamples :
        LET rq2 == [rq EXCEPT !.public.now = n]
        IN  /\ ProverArgs(rq2) = ProverArgs(rq)
            /\ IsOk(gen) =>
                  LET g2 == generate_proof(rq2, oracle.bytes)
                  IN  /\ IsOk(g2.res)
                      /\ g2.res.ok.challenge = gen.ok.challenge
                      /\ g2.res.ok.proof = gen.ok.proof
                      /\ g2.orc = oracle
            /\ Verified =>
                  verify_proof([VerifiedQr EXCEPT !.public.now = n], ver.digest, oracle)
                      = ver.res

\* A QR has been accepted, and the QR that differs from it only in now, by
\* more than the whole range of days, is accepted too.
C11_Witness ==
    /\ Verified /\ IsOk(ver.res)
    /\ rq.public.now = 0
    /\ IsOk(verify_proof([VerifiedQr EXCEPT !.public.now = MaxI32], ver.digest, oracle))

-----------------------------------------------------------------------------
(* Properties of the Younger fold (checked under Spec). *)

\* C12: for birthday, delta and today in 0..MAX_JULIAN_DAY the Younger fold
\* (M - birthday, M - delta, 2M - today) preserves the predicate: birthday +
\* delta > today iff birthday_encoded + delta_encoded < today_encoded; the
\* three encoded values and the sum birthday_encoded + delta_encoded lie in
\* 0..3M, and every value computed on the way is the exact one, within the
\* signed 32 bits. The arguments of a valid Younger request are the folded
\* values.
C12_YoungerFoldPreservesPredicate ==
    InRange(rq) =>
        LET b == rq.private.birthday
            d == rq.public.delta
            t == rq.public.today
            M == MAX_JULIAN_DAY
            f == YoungerFold(b, d, t)
        IN  /\ (b + d > t) <=> (f[1] + f[2] < f[3])
            /\ f = <<M - b, M - d, 2 * M - t>>
            /\ 2 * M \in MinI32..MaxI32
            /\ \A i \in 1..3 : f[i] \in 0..(3 * M) /\ f[i] \in MinI32..MaxI32
            /\ f[1] + f[2] \in 0..(3 * M)
            /\ f[1] + f[2] \in MinI32..MaxI32
            /\ (IsOk(gen) /\ rq.public.relation = "Younger" /\ is_relation_valid(rq)) =>
                  /\ SubSeq(ProverArgs(rq), 1, 3) = f
                  /\ oracle.inputs[1] = f[2] /\ oracle.inputs[2] = f[3]
                  /\ oracle.sat

\* A valid Younger request at the far corner of the range (birthday and delta
\* at MAX_JULIAN_DAY, today 0) has been proved from the folded values 0, 0, 2M.
C12_Witness ==
    /\ IsOk(gen)
    /\ rq.public.relation = "Younger"
    /\ rq.private.birthday = MAX_JULIAN_DAY
    /\ rq.public.delta = MAX_JULIAN_DAY
    /\ rq.public.today = 0
    /\ oracle.inputs[1] = 0 /\ oracle.inputs[2] = 2 * MAX_JULIAN_DAY
    /\ oracle.sat

-----------------------------------------------------------------------------
(* Prover and verifier on the public values (checked under Spec). *)

\* C13: for every request for which is_relation_valid holds, the pair
\* (delta_encoded, today_encoded) generate_proof passes to the circuit is the
\* pair verify_proof derives from the QR's header, and the verifier's input
\* vector is <<delta_encoded, today_encoded, challenge>> in this order, with
\* delta and today for Older, M - delta and 2M - today for Younger.
C13_SameFoldBothSides ==
    (IsOk(gen) /\ is_relation_valid(rq)) =>
        LET a       == ProverArgs(rq)
            v       == VerifierInputs(gen.ok)
            younger == rq.public.relation = "Younger"
            de      == IF younger THEN MAX_JULIAN_DAY - rq.public.delta
                                  ELSE rq.public.delta
            te      == IF younger THEN 2 * MAX_JULIAN_DAY - rq.public.today
                                  ELSE rq.public.today
        IN  /\ <<v[1], v[2]>> = <<a[2], a[3]>>
            /\ <<v[1], v[2]>> = <<oracle.inputs[1], oracle.inputs[2]>>
            /\ Len(v) = 3
            /\ v = <<de, te, from_byte_vector(gen.ok.challenge)>>
            /\ v = oracle.inputs
            /\ IsOk(dec) => VerifierInputs(dec.ok) = v

\* A valid Younger request whose folded delta and today differ has been
\* proved, and its QR was accepted with the request's own digest.
C13_Witness ==
    /\ OwnDigest /\ IsOk(ver.res)
    /\ rq.public.relation = "Younger"
    /\ is_relation_valid(rq)
    /\ rq.public.delta # rq.public.today
    /\ VerifierInputs(VerifiedQr)[1] = MAX_JULIAN_DAY - rq.public.delta
    /\ VerifierInputs(VerifiedQr)[2] = 2 * MAX_JULIAN_DAY - rq.public.today

=============================================================================
